---- MODULE Spec2Model ----
(***************************************************************************)
(* A model of ethstm (src/ethstm/main.py): the schema-driven translation   *)
(* of a state-test template.  Strings that the code inspects character by  *)
(* character (field values, paths, test-case names) are sequences of       *)
(* one-character strings; record keys, which the code only compares, are   *)
(* TLA+ strings.                                                           *)
(***************************************************************************)
EXTENDS Integers, Sequences, FiniteSets, TLC

VARIABLES
    bytecodes,  \* self._bytecodes: path -> bytecode hex, of the current translator
    pc,         \* where the current translator call stands: "idle" or "dict"
    indoc,      \* the document handed to the running (or last) call
    remaining,  \* names of indoc that JSchemaDict's loop has not reached yet
    cur,        \* the name of the entry the loop is at
    result,     \* JSchemaDict result built so far
    outcome,    \* how the last call ended: returned document or raised error
    compiles,   \* history: the compiler subprocesses this translator spawned, in order
    earlier,    \* history: the paths that earlier translators compiled
    ntrans,     \* history: how many translators have been constructed
    ncalls,     \* history: how many calls have been started, over all translators
    tcalls,     \* history: how many calls have been started on this translator
    last        \* the last field-parser application: parser, input, result

vars == <<bytecodes, pc, indoc, remaining, cur, result, outcome,
          compiles, earlier, ntrans, ncalls, tcalls, last>>

----------------------------------------------------------------------------
(* Strings *)

Rep(c, n) == [i \in 1..n |-> c]

HexLower == {"0","1","2","3","4","5","6","7","8","9","a","b","c","d","e","f"}
Digits == {"0","1","2","3","4","5","6","7","8","9"}
HexChars == <<"0","1","2","3","4","5","6","7","8","9","a","b","c","d","e","f">>

\* str.encode('hex') of a byte string: two lowercase hex digits per byte.
HexEncode(bytes) ==
    [i \in 1..(2 * Len(bytes)) |->
        IF i % 2 = 1 THEN HexChars[(bytes[(i + 1) \div 2] \div 16) + 1]
                     ELSE HexChars[(bytes[i \div 2] % 16) + 1]]

\* Index of the first c in s, 0 when there is none (str.find, 1-based).
Find(s, c) ==
    IF \E i \in 1..Len(s) : s[i] = c
    THEN CHOOSE i \in 1..Len(s) : s[i] = c /\ \A j \in 1..(i - 1) : s[j] # c
    ELSE 0

\* Index of the last c in s, 0 when there is none (str.rfind, 1-based).
RFind(s, c) ==
    IF \E i \in 1..Len(s) : s[i] = c
    THEN CHOOSE i \in 1..Len(s) : s[i] = c /\ \A j \in (i + 1)..Len(s) : s[j] # c
    ELSE 0

\* src.split(':', 1): at most one split, at the first ':'.
SplitOnce(s) ==
    LET i == Find(s, ":")
    IN  IF i = 0 THEN <<s>>
        ELSE <<SubSeq(s, 1, i - 1), SubSeq(s, i + 1, Len(s))>>

\* os.path.splitext(path): the extension starts at the last '.' of the last
\* path component, unless that component has only dots before it.
Splitext(p) ==
    LET sepIndex == RFind(p, "/")
        dotIndex == RFind(p, ".")
    IN  IF dotIndex > sepIndex
           /\ \E j \in (sepIndex + 1)..(dotIndex - 1) : p[j] # "."
        THEN <<SubSeq(p, 1, dotIndex - 1), SubSeq(p, dotIndex, Len(p))>>
        ELSE <<p, <<>>>>

----------------------------------------------------------------------------
(* Results of a parser: a value, or the exception it raises *)

Ok(v) == [ok |-> TRUE, val |-> v]
Raised(e) == [ok |-> FALSE, err |-> e]

\* SchemaError('Invalid {} field: {!r} does not match {}'.format(name, src, pat))
InvalidField(name, src, pat) ==
    [kind |-> "SchemaError", what |-> "Invalid field", name |-> name, src |-> src, pat |-> pat]
\* SchemaError('Unknown data field prefix: {!r}'.format(prefix))
UnknownPrefix(prefix) ==
    [kind |-> "SchemaError", what |-> "Unknown data field prefix", prefix |-> prefix]
\* SchemaError("Expected a single ':' in Data field: {!r}".format(src))
ExpectedColon(src) ==
    [kind |-> "SchemaError", what |-> "Expected a single ':' in Data field", src |-> src]
\* SchemaError('No known compiler for extension {!r}.'.format(path))
NoCompiler(path) ==
    [kind |-> "SchemaError", what |-> "No known compiler for extension", path |-> path]
\* SchemaError('Missing keys: {!r}; unexpected keys: {!r}'.format(missingkeys, unexpectedkeys))
KeyMismatch(missingkeys, unexpectedkeys) ==
    [kind |-> "SchemaError", what |-> "Missing keys", missing |-> missingkeys,
     unexpected |-> unexpectedkeys]
\* file(path, 'r') fails: the source file cannot be opened.
IOError(path) == [kind |-> "IOError", path |-> path]
\* subprocess.check_output raises: the compiler exited with a non-zero status.
CalledProcessError(path) == [kind |-> "CalledProcessError", path |-> path]
\* str(kin) on a name that is not ASCII.
UnicodeEncodeError(name) == [kind |-> "UnicodeEncodeError", name |-> name]

----------------------------------------------------------------------------
(* Regex fields *)

AddressLen == 40
SecretKeyLen == 64

\* The three patterns: a character class, and how many characters of it the
\* pattern consumes at least ({40}, {64}, and + which is one or more).
Patterns ==
    [Address   |-> [pat |-> "[0-9a-f]{40}", class |-> HexLower, atleast |-> AddressLen],
     SecretKey |-> [pat |-> "[0-9a-f]{64}", class |-> HexLower, atleast |-> SecretKeyLen],
     UInt      |-> [pat |-> "\\d+", class |-> Digits, atleast |-> 1]]

\* rgx.match(src): the pattern matches at the start of src; what follows the
\* match is not looked at.
RgxMatch(p, src) ==
    /\ Len(src) >= p.atleast
    /\ \A i \in 1..p.atleast : src[i] \in p.class

\* rgx_field(name, pat)(src)
RgxField(name, src) ==
    IF RgxMatch(Patterns[name], src)
    THEN Ok(src)
    ELSE Raised(InvalidField(name, src, Patterns[name].pat))

----------------------------------------------------------------------------
(* eth_compile and the Data field *)

\* The extension-to-compiler mapping of eth_compile.
Compilers == (<<".", "s", "e">> :> "serpent")

\* What the outside world answers to one eth_compile(path): whether the source
\* file opens, the compiler's exit status and what it wrote to its stdout.
CompilerOutputs == {<<>>, <<96, 243>>}
Worlds ==
    {[canopen |-> FALSE, status |-> 0, output |-> <<>>],
     [canopen |-> TRUE, status |-> 1, output |-> <<>>]}
    \cup {[canopen |-> TRUE, status |-> 0, output |-> o] : o \in CompilerOutputs}

\* Mutant: an unknown extension falls back to the serpent compiler.
EthCompileDefaultCompiler(path, world) ==
    IF ~world.canopen
    THEN [res |-> Raised(IOError(path)), spawn |-> FALSE]
    ELSE IF world.status # 0
    THEN [res |-> Raised(CalledProcessError(path)), spawn |-> TRUE]
    ELSE [res |-> Ok(<<"0", "x">> \o HexEncode(world.output)), spawn |-> TRUE]

\* eth_compile(path): the result, and whether a compiler subprocess was spawned.
EthCompile(path, world) ==
    LET ext == Splitext(path)[2]
    IN  IF ext \notin DOMAIN Compilers
        THEN [res |-> Raised(NoCompiler(path)), spawn |-> FALSE]
        ELSE IF ~world.canopen
        THEN [res |-> Raised(IOError(path)), spawn |-> FALSE]
        ELSE IF world.status # 0
        THEN [res |-> Raised(CalledProcessError(path)), spawn |-> TRUE]
        ELSE [res |-> Ok(<<"0", "x">> \o HexEncode(world.output)), spawn |-> TRUE]

\* self._bytecodes.get(body), self._bytecodes[body] = result
CacheGet(cache, path) == IF path \in DOMAIN cache THEN Ok(cache[path]) ELSE Raised("None")
CachePut(cache, path, v) ==
    [p \in DOMAIN cache \cup {path} |-> IF p = path THEN v ELSE cache[p]]

PrefixHex == <<"h", "e", "x">>

\* Mutant: the body of a hex: field returned as it is.
HexDataBare(body) == body

\* '0x' + body
HexData(body) == <<"0", "x">> \o body

PrefixCompile == <<"c", "o", "m", "p", "i", "l", "e">>

\* Mutant: the compile branch without the cache lookup.
DataAlwaysCompiles(src, cache, world) ==
    IF Len(src) = 0
    THEN [res |-> Ok(<<>>), cache |-> cache, spawn |-> FALSE]
    ELSE LET fields == SplitOnce(src)
         IN  IF Len(fields) = 2
             THEN IF fields[1] = PrefixHex
                  THEN [res |-> Ok(HexData(fields[2])), cache |-> cache, spawn |-> FALSE]
                  ELSE IF fields[1] = PrefixCompile
                  THEN LET c == EthCompile(fields[2], world)
                       IN  [res |-> c.res,
                            cache |-> IF c.res.ok THEN CachePut(cache, fields[2], c.res.val)
                                      ELSE cache,
                            spawn |-> c.spawn]
                  ELSE [res |-> Raised(UnknownPrefix(fields[1])), cache |-> cache, spawn |-> FALSE]
             ELSE [res |-> Raised(ExpectedColon(src)), cache |-> cache, spawn |-> FALSE]

\* Data(src) on a translator whose cache is `cache`: the result, the cache
\* afterwards, and whether a compiler subprocess was spawned.
Data(src, cache, world) ==
    IF Len(src) = 0
    THEN [res |-> Ok(<<>>), cache |-> cache, spawn |-> FALSE]
    ELSE LET fields == SplitOnce(src)
         IN  IF Len(fields) = 2
             THEN IF fields[1] = PrefixHex
                  THEN [res |-> Ok(HexData(fields[2])), cache |-> cache, spawn |-> FALSE]
                  ELSE IF fields[1] = PrefixCompile
                  THEN LET hit == CacheGet(cache, fields[2])
                       IN  IF hit.ok
                           THEN [res |-> hit, cache |-> cache, spawn |-> FALSE]
                           ELSE LET c == EthCompile(fields[2], world)
                                IN  [res |-> c.res,
                                     cache |-> IF c.res.ok
                                               THEN CachePut(cache, fields[2], c.res.val)
                                               ELSE cache,
                                     spawn |-> c.spawn]
                  ELSE [res |-> Raised(UnknownPrefix(fields[1])), cache |-> cache, spawn |-> FALSE]
             ELSE [res |-> Raised(ExpectedColon(src)), cache |-> cache, spawn |-> FALSE]

\* One compiler subprocess, as recorded in the history.
Spawn(entry, path, res) ==
    [call |-> tcalls, entry |-> entry, path |-> path,
     ok |-> res.ok, out |-> IF res.ok THEN res.val ELSE <<>>]

----------------------------------------------------------------------------
(* Field parsers applied on their own: the inputs *)

MaxRun == 2
MaxColonStr == 3
MaxCompiles == 3

\* Runs of one character whose lengths are short, or around the lengths the
\* patterns ask for; with something before and something after.
RunLengths ==
    (0..MaxRun) \cup ((AddressLen - 1)..(AddressLen + 1))
                \cup ((SecretKeyLen - 1)..(SecretKeyLen + 1))
RgxInputs ==
    {h \o Rep(c, n) \o t : h \in {<<>>, <<"A">>}, c \in {"7", "f"}, n \in RunLengths,
                           t \in {<<>>, <<"0">>, <<"F">>, <<"x", "y">>, <<" ">>}}

\* Paths of a compile: reference.
SePaths == {<<"a", ".", "s", "e">>, <<"b", ".", "s", "e">>}
OtherPaths == {<<"a", ".", "s", "o", "l">>, <<"a">>, <<".", "s", "e">>, <<"d", ".", "s", "e", "/", "a">>, <<"a", ".", "s", "e", ".", "x">>}
Compile(path) == PrefixCompile \o <<":">> \o path

RECURSIVE StringsOver(_, _)
StringsOver(chars, n) ==
    IF n = 0 THEN {<<>>}
    ELSE LET shorter == StringsOver(chars, n - 1)
         IN  shorter \cup {Append(s, c) : s \in shorter, c \in chars}

DataInputs ==
    {<<"h", "e", "x", ":", "a", "a">>, <<"h", "e", "x", ":">>, <<"h", "e", "x", ":", "z", "z">>, <<"h", "e", "x", ":", "a", "a", ":", "b", "b">>, <<"h", "e", "x">>, <<"f", "o", "o", ":", "a", "a">>, <<"H", "E", "X", ":", "a", "a">>, <<"c", "o", "m", "p", "i", "l", "e">>,
     <<"c", "o", "m", "p", "i", "l", "e", ":", "a", ".", "s", "e", ":", "b">>}
    \cup {Compile(p) : p \in SePaths \cup OtherPaths}
    \cup StringsOver({"a", ":"}, MaxColonStr)

NoParse == [fn |-> "none"]
NoOutcome == [kind |-> "none"]

Init ==
    /\ bytecodes = <<>>
    /\ pc = "idle"
    /\ indoc = <<>>
    /\ remaining = {}
    /\ cur = <<>>
    /\ result = <<>>
    /\ outcome = NoOutcome
    /\ compiles = <<>>
    /\ earlier = {}
    /\ ntrans = 1
    /\ ncalls = 0
    /\ tcalls = 0
    /\ last = NoParse

translation == <<pc, indoc, remaining, cur, result, outcome, earlier, ntrans, ncalls, tcalls>>

\* Address(src), SecretKey(src), UInt(src)
ParseRgx(name, src) ==
    /\ last' = [fn |-> name, src |-> src, res |-> RgxField(name, src)]
    /\ UNCHANGED <<bytecodes, compiles, translation>>

\* Data(src), with the world's answer should it compile.
ParseData(src, world) ==
    /\ Len(compiles) < MaxCompiles
    /\ LET d == Data(src, bytecodes, world)
       IN  /\ bytecodes' = d.cache
           /\ compiles' = IF d.spawn
                          THEN Append(compiles, Spawn(<<>>, SplitOnce(src)[2], d.res))
                          ELSE compiles
           /\ last' = [fn |-> "Data", src |-> src, res |-> d.res, spawn |-> d.spawn,
                       before |-> bytecodes]
    /\ UNCHANGED translation

NextFields == \E name \in DOMAIN Patterns, src \in RgxInputs : ParseRgx(name, src)
SpecFields == Init /\ [][NextFields]_vars

NextData == \E src \in DataInputs, world \in Worlds : ParseData(src, world)
SpecData == Init /\ [][NextData]_vars

----------------------------------------------------------------------------
(* The schemas *)

\* Mutant: the parsers of `to` and `secretKey` swapped.
TransactionSpecSwapped ==
    [data |-> "Data", gasLimit |-> "UInt", gasPrice |-> "UInt", nonce |-> "UInt",
     secretKey |-> "Address", to |-> "SecretKey", value |-> "UInt"]

\* Transaction = JSchema(data = Data, gasLimit = UInt, ...)
TransactionSpec ==
    [data |-> "Data", gasLimit |-> "UInt", gasPrice |-> "UInt", nonce |-> "UInt",
     secretKey |-> "SecretKey", to |-> "Address", value |-> "UInt"]

\* TestCase = JSchema(env = Any, ..., transaction = Transaction)
TestCaseSpec ==
    [env |-> "Any", logs |-> "Any", out |-> "Any", post |-> "Any",
     postStateRoot |-> "Any", pre |-> "Any", transaction |-> "Transaction"]

\* Mutant: only the first kind of mismatch found is reported.
JSchemaKeysFirstMismatch(fieldspecs, doc) ==
    LET expectedkeys == DOMAIN fieldspecs
        inkeys == DOMAIN doc
        missingkeys == expectedkeys \ inkeys
        unexpectedkeys == inkeys \ expectedkeys
    IN  IF missingkeys # {} THEN Raised(KeyMismatch(missingkeys, {}))
        ELSE IF unexpectedkeys # {} THEN Raised(KeyMismatch({}, unexpectedkeys))
        ELSE Ok(doc)

\* JSchema.__call__, the key-set check.
JSchemaKeys(fieldspecs, doc) ==
    LET expectedkeys == DOMAIN fieldspecs
        inkeys == DOMAIN doc
        missingkeys == expectedkeys \ inkeys
        unexpectedkeys == inkeys \ expectedkeys
    IN  IF missingkeys # {} \/ unexpectedkeys # {}
        THEN Raised(KeyMismatch(missingkeys, unexpectedkeys))
        ELSE Ok(doc)

\* One field parser of the Transaction schema applied to src.
Field(spec, src, cache, world) ==
    IF spec = "Data" THEN Data(src, cache, world)
    ELSE [res |-> RgxField(spec, src), cache |-> cache, spawn |-> FALSE]

\* JSchema.__call__, the loop over the fields of the Transaction schema, taken
\* in `order` from position i on.  acc holds the result dict, the cache and the
\* compiler subprocesses spawned so far; the first parser that raises ends it.
RECURSIVE TransactionLoop(_, _, _, _, _)
TransactionLoop(doc, order, i, acc, world) ==
    IF i > Len(order) THEN [res |-> Ok(acc.out), cache |-> acc.cache, spawns |-> acc.spawns]
    ELSE LET key == order[i]
             f == Field(TransactionSpec[key], doc[key], acc.cache, world)
         IN  IF f.res.ok
             THEN TransactionLoop(doc, order, i + 1,
                      [out |-> [k \in DOMAIN acc.out \cup {key} |->
                                   IF k = key THEN f.res.val ELSE acc.out[k]],
                       cache |-> f.cache,
                       spawns |-> IF f.spawn
                                  THEN Append(acc.spawns,
                                           [path |-> SplitOnce(doc[key])[2], res |-> f.res])
                                  ELSE acc.spawns],
                      world)
             ELSE [res |-> f.res, cache |-> f.cache,
                   spawns |-> IF f.spawn
                              THEN Append(acc.spawns,
                                       [path |-> SplitOnce(doc[key])[2], res |-> f.res])
                              ELSE acc.spawns]

\* Mutant: the fields the input has are parsed before the key sets are compared.
TransactionParsesFirst(doc, order, cache, world) ==
    LET present == SelectSeq(order, LAMBDA k : k \in DOMAIN doc)
        r == TransactionLoop(doc, present, 1,
                 [out |-> <<>>, cache |-> cache, spawns |-> <<>>], world)
        keys == JSchemaKeys(TransactionSpec, doc)
    IN  IF r.res.ok /\ ~keys.ok THEN [r EXCEPT !.res = keys] ELSE r

\* The Transaction schema applied to doc: JSchema.__call__.
Transaction(doc, order, cache, world) ==
    LET keys == JSchemaKeys(TransactionSpec, doc)
    IN  IF ~keys.ok THEN [res |-> keys, cache |-> cache, spawns |-> <<>>]
        ELSE TransactionLoop(doc, order, 1,
                 [out |-> <<>>, cache |-> cache, spawns |-> <<>>], world)

\* The TestCase schema applied to doc: JSchema.__call__.  Its other six parsers
\* are Any, the identity, so where the loop reaches `transaction` has no effect.
TestCase(doc, order, cache, world) ==
    LET keys == JSchemaKeys(TestCaseSpec, doc)
    IN  IF ~keys.ok THEN [res |-> keys, cache |-> cache, spawns |-> <<>>]
        ELSE LET t == Transaction(doc.transaction, order, cache, world)
             IN  IF t.res.ok
                 THEN [t EXCEPT !.res = Ok([doc EXCEPT !.transaction = t.res.val])]
                 ELSE t

\* str(kin), the key parser of JSchemaDict, on a name as json.load gives it
\* (a unicode string): the same name, or UnicodeEncodeError when a character
\* of it is not ASCII.  "U+00E9" stands for one such character.
NonAscii == {"U+00E9"}
Str(name) ==
    IF \E i \in 1..Len(name) : name[i] \in NonAscii
    THEN Raised(UnicodeEncodeError(name))
    ELSE Ok(name)

\* The orders in which the dict of the seven Transaction fields can be iterated.
\* The language leaves the order open.  The loop stops at the first parser that
\* raises, Data alone has an effect, and the six other parsers depend on their
\* input alone: so a walk is decided by which of them raises first and by
\* whether Data ran before it.  The orders below put Data and one other field
\* first and second, either way round, and the rest after them: they produce
\* every outcome that some order of the seven fields produces.
CanonicalOrder == <<"data", "gasLimit", "gasPrice", "nonce", "secretKey", "to", "value">>
FieldOrders ==
    {<<p[1], p[2]>> \o SelectSeq(CanonicalOrder, LAMBDA k : k # p[1] /\ k # p[2]) :
        p \in {q \in (DOMAIN TransactionSpec) \X (DOMAIN TransactionSpec) :
                  q[1] # q[2] /\ "data" \in {q[1], q[2]}}}

----------------------------------------------------------------------------
(* Documents *)

MaxCalls == 2

NameA == <<"a">>
NameB == <<"b">>
NameU == <<"c", "a", "f", "U+00E9">>

Drop(rec, k) == [x \in DOMAIN rec \ {k} |-> rec[x]]
With(rec, k, v) == [x \in DOMAIN rec \cup {k} |-> IF x = k THEN v ELSE rec[x]]

BaseTransaction(data) ==
    [data |-> data, gasLimit |-> <<"1", "0", "0">>, gasPrice |-> <<"1">>, nonce |-> <<"0">>,
     secretKey |-> Rep("1", SecretKeyLen), to |-> Rep("2", AddressLen), value |-> <<"0">>]

BadValues ==
    [gasLimit |-> <<"x">>, gasPrice |-> <<>>, nonce |-> <<"x">>, value |-> <<"-", "1">>,
     secretKey |-> Rep("1", SecretKeyLen - 1), to |-> Rep("2", AddressLen - 1)]

WellFormedData == {<<>>, <<"h", "e", "x", ":", "a", "a">>, <<"h", "e", "x", ":", "a", "a", ":", "b", "b">>, Compile(<<"a", ".", "s", "e">>), Compile(<<"a", ".", "s", "o", "l">>)}
MalformedData == {<<"h", "e", "x">>, <<"f", "o", "o", ":", "a", "a">>}

Transactions ==
    {BaseTransaction(d) : d \in WellFormedData \cup MalformedData}
    \cup {With(BaseTransaction(Compile(<<"a", ".", "s", "e">>)), k, BadValues[k]) : k \in DOMAIN BadValues}
    \cup {With(With(BaseTransaction(<<>>), "gasLimit", <<"x">>), "nonce", <<"x">>)}
    \cup {Drop(BaseTransaction(Compile(<<"a", ".", "s", "e">>)), "to"),
          With(BaseTransaction(Compile(<<"a", ".", "s", "e">>)), "extra", <<>>),
          With(Drop(BaseTransaction(Compile(<<"a", ".", "s", "e">>)), "nonce"), "extra", <<>>)}

BaseTestCase(tx) ==
    [env |-> "{}", logs |-> "[]", out |-> "", post |-> "{}", postStateRoot |-> "",
     pre |-> "{}", transaction |-> tx]

TestCases ==
    {BaseTestCase(tx) : tx \in Transactions}
    \cup {Drop(BaseTestCase(BaseTransaction(Compile(<<"a", ".", "s", "e">>))), "pre"),
          With(BaseTestCase(BaseTransaction(Compile(<<"a", ".", "s", "e">>))), "comment", ""),
          With(Drop(BaseTestCase(BaseTransaction(Compile(<<"a", ".", "s", "e">>))), "env"), "comment", ""),
          Drop(BaseTestCase(BaseTransaction(Compile(<<"a", ".", "s", "e">>))), "transaction")}

\* The test cases that documents of two entries are made of.
PairCases ==
    {BaseTestCase(BaseTransaction(d)) : d \in {<<"h", "e", "x", ":", "a", "a">>,
                                                Compile(<<"a", ".", "s", "e">>),
                                                Compile(<<"a", ".", "s", "o", "l">>)}}
    \cup {BaseTestCase(With(BaseTransaction(Compile(<<"a", ".", "s", "e">>)), "to", BadValues.to)),
          BaseTestCase(Drop(BaseTransaction(Compile(<<"a", ".", "s", "e">>)), "to")),
          With(BaseTestCase(BaseTransaction(Compile(<<"a", ".", "s", "e">>))), "comment", "")}

Doc1(n, tc) == [k \in {n} |-> tc]
Doc2(n, tc, m, tc2) == [k \in {n, m} |-> IF k = n THEN tc ELSE tc2]

Docs ==
    {<<>>}
    \cup {Doc1(NameA, tc) : tc \in TestCases}
    \cup {Doc2(NameA, tc, NameB, tc2) : tc \in PairCases, tc2 \in PairCases}
    \cup {Doc1(NameU, BaseTestCase(BaseTransaction(Compile(<<"a", ".", "s", "e">>))))}
    \cup {Doc2(NameA, BaseTestCase(BaseTransaction(d)), NameU,
               BaseTestCase(BaseTransaction(Compile(<<"a", ".", "s", "e">>)))) : d \in {<<>>, <<"h", "e", "x">>}}

----------------------------------------------------------------------------
(* The translator *)

\* Mutant: the cache is a dict shared by all translators.
NewTranslatorSharedCache ==
    /\ pc = "idle"
    /\ tcalls > 0
    /\ ntrans' = ntrans + 1
    /\ tcalls' = 0
    /\ compiles' = <<>>
    /\ earlier' = earlier \cup DOMAIN bytecodes
    /\ indoc' = <<>>
    /\ remaining' = {}
    /\ cur' = <<>>
    /\ result' = <<>>
    /\ outcome' = NoOutcome
    /\ UNCHANGED <<bytecodes, pc, ncalls, last>>

\* StateTestTranslator(), as in main's loop: a translator with an empty cache,
\* that has not been called.  The variables of a call describe the calls of
\* the current translator, so they start over.
NewTranslator ==
    /\ pc = "idle"
    /\ tcalls > 0
    /\ bytecodes' = <<>>
    /\ ntrans' = ntrans + 1
    /\ tcalls' = 0
    /\ compiles' = <<>>
    /\ earlier' = earlier \cup DOMAIN bytecodes
    /\ indoc' = <<>>
    /\ remaining' = {}
    /\ cur' = <<>>
    /\ result' = <<>>
    /\ outcome' = NoOutcome
    /\ UNCHANGED <<pc, ncalls, last>>

\* StateTestTranslator.__call__(jsonin), up to the loop of JSchemaDict.__call__.
Call(jsonin) ==
    /\ pc = "idle"
    /\ ncalls < MaxCalls
    /\ pc' = "dict"
    /\ indoc' = jsonin
    /\ remaining' = DOMAIN jsonin
    /\ cur' = <<>>
    /\ result' = <<>>
    /\ outcome' = NoOutcome
    /\ ncalls' = ncalls + 1
    /\ tcalls' = tcalls + 1
    /\ UNCHANGED <<bytecodes, compiles, earlier, ntrans, last>>

\* Mutant: the error is kept and the loop goes on with the next entry.
RaiseAndGoOn(e) ==
    /\ pc' = "dict"
    /\ outcome' = [kind |-> "raised", err |-> e]

\* An exception leaves JSchemaDict.__call__ and the translator call.
Raise(e) ==
    /\ pc' = "idle"
    /\ outcome' = [kind |-> "raised", err |-> e]

\* One round of the loop of JSchemaDict.__call__, on entry kin; the dict's
\* iteration order leaves open which entry that is.  The order of the
\* Transaction fields is chosen for each round, which allows every order a
\* translator's dict can have (and orders that change between rounds).
Entry(kin, order, world) ==
    /\ pc = "dict"
    /\ kin \in remaining
    /\ cur' = kin
    /\ remaining' = remaining \ {kin}
    /\ LET kout == Str(kin)
           vout == TestCase(indoc[kin], order, bytecodes, world)
       IN  IF ~kout.ok
           THEN /\ Raise(kout.err)
                /\ UNCHANGED <<bytecodes, compiles, result>>
           ELSE /\ bytecodes' = vout.cache
                /\ compiles' = compiles \o
                       [i \in 1..Len(vout.spawns) |->
                           Spawn(kin, vout.spawns[i].path, vout.spawns[i].res)]
                /\ IF vout.res.ok
                   THEN /\ result' = With(result, kout.val, vout.res.val)
                        /\ UNCHANGED <<pc, outcome>>
                   ELSE /\ Raise(vout.res.err)
                        /\ UNCHANGED result
    /\ UNCHANGED <<indoc, earlier, ntrans, ncalls, tcalls, last>>

\* JSchemaDict.__call__ returns result once the loop is over.
Return ==
    /\ pc = "dict"
    /\ remaining = {}
    /\ pc' = "idle"
    /\ outcome' = [kind |-> "returned", doc |-> result]
    /\ UNCHANGED <<bytecodes, indoc, remaining, cur, result, compiles, earlier, ntrans,
                   ncalls, tcalls, last>>

Next ==
    \/ NewTranslator
    \/ \E jsonin \in Docs : Call(jsonin)
    \/ \E kin \in remaining, order \in FieldOrders, world \in Worlds : Entry(kin, order, world)
    \/ Return

Spec == Init /\ [][Next]_vars

----------------------------------------------------------------------------
(* What the claims speak of, stated apart from the code *)

StartsWith(s, pre) == Len(s) >= Len(pre) /\ SubSeq(s, 1, Len(pre)) = pre
IsCompileRef(src) == StartsWith(src, <<"c", "o", "m", "p", "i", "l", "e", ":">>)
IsHexRef(src) == StartsWith(src, <<"h", "e", "x", ":">>)
PathOf(src) == SubSeq(src, 9, Len(src))
ColonCount(s) == Cardinality({i \in 1..Len(s) : s[i] = ":"})
ASe == <<"a", ".", "s", "e">>
DotSe == <<".", "s", "e">>

TestCaseKeys == {"env", "logs", "out", "post", "postStateRoot", "pre", "transaction"}
OpaqueKeys == {"env", "logs", "out", "post", "postStateRoot", "pre"}
TransactionKeys == {"data", "gasLimit", "gasPrice", "nonce", "secretKey", "to", "value"}
UIntKeys == {"gasLimit", "gasPrice", "nonce", "value"}
TypeOf ==
    [gasLimit |-> "UInt", gasPrice |-> "UInt", nonce |-> "UInt", value |-> "UInt",
     to |-> "Address", secretKey |-> "SecretKey"]
PatternOf == [Address |-> "[0-9a-f]{40}", SecretKey |-> "[0-9a-f]{64}", UInt |-> "\\d+"]

IsLowerHex(s, n) == Len(s) = n /\ \A i \in 1..Len(s) : s[i] \in HexLower
IsDecimal(s) == Len(s) > 0 /\ \A i \in 1..Len(s) : s[i] \in Digits

Raises == outcome.kind = "raised"
RaisesSchema(what) ==
    /\ outcome.kind = "raised"
    /\ outcome.err.kind = "SchemaError"
    /\ outcome.err.what = what
\* The compiler subprocesses spawned for entry k in the call that is running
\* or has just ended.
SpawnedFor(k) == {i \in DOMAIN compiles : compiles[i].call = tcalls /\ compiles[i].entry = k}
\* The cache holds what the successful compiles of this translator produced.
CacheIsOfOwnCompiles ==
    /\ \A p \in DOMAIN bytecodes :
           \E i \in DOMAIN compiles : compiles[i].path = p /\ compiles[i].ok
    /\ \A i \in DOMAIN compiles :
           compiles[i].ok => /\ compiles[i].path \in DOMAIN bytecodes
                             /\ bytecodes[compiles[i].path] = compiles[i].out

----------------------------------------------------------------------------
(* C1 *)

\* C1, as amended: on one translator, over any sequence of Data parses, a path
\* is compiled successfully at most once: after a successful compile of p the
\* compiler is never spawned for p again, the cache holds what that compile
\* produced, and a compile:p lookup that finds p in the cache spawns nothing,
\* leaves the cache alone and returns the stored string ('0x' included).
C1_CompiledSuccessfullyOnce ==
    /\ \A i \in DOMAIN compiles :
           compiles[i].ok =>
               \A j \in DOMAIN compiles : j > i => compiles[j].path # compiles[i].path
    /\ CacheIsOfOwnCompiles
    /\ (last.fn = "Data" /\ IsCompileRef(last.src) /\ last.res.ok)
           => last.res.val = bytecodes[PathOf(last.src)]
    /\ (last.fn = "Data" /\ IsCompileRef(last.src) /\ PathOf(last.src) \in DOMAIN last.before)
           => /\ ~last.spawn
              /\ last.res = Ok(last.before[PathOf(last.src)])
              /\ bytecodes = last.before

\* A compile:a.se lookup answered from the cache, the stored bytecode being
\* '0x', that of an empty compiler output.
C1_Witness ==
    /\ last.fn = "Data"
    /\ last.src = Compile(ASe)
    /\ ASe \in DOMAIN last.before
    /\ ~last.spawn
    /\ last.res = Ok(<<"0", "x">>)
    /\ Cardinality({i \in DOMAIN compiles : compiles[i].path = ASe}) = 1

\* C1, as claimed: the compiler is spawned at most once for a path, over any
\* sequence of Data parses on one translator.
C1_AtMostOneInvocation ==
    \A i \in DOMAIN compiles, j \in DOMAIN compiles :
        compiles[i].path = compiles[j].path => i = j

----------------------------------------------------------------------------
(* C2 *)

\* C2, as claimed: Address accepts exactly the strings of 40 characters of
\* [0-9a-f], SecretKey exactly those of 64, UInt exactly the non-empty strings
\* of decimal digits.
C2_WholeStringMatches ==
    /\ last.fn = "Address" => (last.res.ok <=> IsLowerHex(last.src, 40))
    /\ last.fn = "SecretKey" => (last.res.ok <=> IsLowerHex(last.src, 64))
    /\ last.fn = "UInt" => (last.res.ok <=> IsDecimal(last.src))

----------------------------------------------------------------------------
(* C5 *)

\* C5, as claimed: a non-empty Data string whose number of ':' is not one is
\* rejected with the error of a malformed data field.
C5_ExactlyOneColon ==
    (last.fn = "Data" /\ Len(last.src) > 0 /\ ColonCount(last.src) # 1)
        => last.res = Raised(ExpectedColon(last.src))

----------------------------------------------------------------------------
(* C8 *)

\* C8: no compiler subprocess is ever spawned, and no cache entry ever stored,
\* for a path whose extension is not .se; a compile: lookup of such a path
\* raises the schema error naming the path, spawns nothing and leaves the
\* cache as it was.
C8_UnknownExtension ==
    /\ \A i \in DOMAIN compiles : Splitext(compiles[i].path)[2] = DotSe
    /\ \A p \in DOMAIN bytecodes : Splitext(p)[2] = DotSe
    /\ (last.fn = "Data" /\ IsCompileRef(last.src)
            /\ Splitext(PathOf(last.src))[2] # DotSe)
           => /\ last.res = Raised(NoCompiler(PathOf(last.src)))
              /\ ~last.spawn
              /\ bytecodes = last.before

\* compile:a.sol looked up on a translator that has already compiled a path.
C8_Witness ==
    /\ last.fn = "Data"
    /\ last.src = Compile(<<"a", ".", "s", "o", "l">>)
    /\ ~last.res.ok
    /\ DOMAIN bytecodes # {}

----------------------------------------------------------------------------
(* The entry the loop of JSchemaDict is at, for the claims below *)

CurCase == indoc[cur]
CurTransaction == indoc[cur].transaction
AtEntry == cur \in DOMAIN indoc
CurNameIsAscii == \A i \in 1..Len(cur) : cur[i] # "U+00E9"

----------------------------------------------------------------------------
(* C3 *)

\* C3: when the loop has been at an entry whose TestCase key set, or else
\* whose Transaction key set, differs from the expected one, the call has
\* raised one error whose two sets are exactly the expected keys the record
\* lacks and the keys of the record that are not expected; when both key sets
\* are the expected ones, no key-set error is raised.
C3_KeySetsReported ==
    (AtEntry /\ CurNameIsAscii) =>
        IF DOMAIN CurCase # TestCaseKeys
        THEN /\ Raises
             /\ outcome.err = KeyMismatch(TestCaseKeys \ DOMAIN CurCase,
                                          DOMAIN CurCase \ TestCaseKeys)
        ELSE IF DOMAIN CurTransaction # TransactionKeys
        THEN /\ Raises
             /\ outcome.err = KeyMismatch(TransactionKeys \ DOMAIN CurTransaction,
                                          DOMAIN CurTransaction \ TransactionKeys)
        ELSE ~RaisesSchema("Missing keys")

\* A Transaction that lacks `nonce` and has `extra`: both sets are reported.
C3_Witness ==
    /\ RaisesSchema("Missing keys")
    /\ outcome.err.missing = {"nonce"}
    /\ outcome.err.unexpected = {"extra"}

----------------------------------------------------------------------------
(* C4 *)

\* The error comes from the entry the loop was at.
ErrorIsOfCurrentEntry ==
    LET e == outcome.err
    IN  IF e.kind = "UnicodeEncodeError" THEN e.name = cur
        ELSE IF e.kind \in {"IOError", "CalledProcessError"}
        THEN CurTransaction.data = Compile(e.path)
        ELSE IF e.what = "Missing keys"
        THEN DOMAIN CurCase # TestCaseKeys \/ DOMAIN CurTransaction # TransactionKeys
        ELSE IF e.what = "Invalid field"
        THEN \E k \in TransactionKeys \ {"data"} : CurTransaction[k] = e.src
        ELSE IF e.what = "No known compiler for extension"
        THEN CurTransaction.data = Compile(e.path)
        ELSE IF e.what = "Unknown data field prefix"
        THEN StartsWith(CurTransaction.data, e.prefix \o <<":">>)
        ELSE CurTransaction.data = e.src

\* C4: once an entry has failed the call is over: the error is that entry's,
\* no document is returned, the entries before it were translated, and the
\* entries the loop had not reached are not in the result and no compiler
\* subprocess was spawned, nor any cache entry stored, for them.
C4_HaltsAtFirstFailure ==
    Raises =>
        /\ pc = "idle"
        /\ AtEntry /\ cur \notin remaining
        /\ ErrorIsOfCurrentEntry
        /\ DOMAIN outcome = {"kind", "err"}
        /\ DOMAIN result = (DOMAIN indoc \ remaining) \ {cur}
        /\ \A k \in remaining : SpawnedFor(k) = {}
        /\ \A i \in DOMAIN compiles :
               compiles[i].call = tcalls => compiles[i].entry \in DOMAIN indoc \ remaining
        /\ CacheIsOfOwnCompiles

\* An entry failed while another, not reached, refers to a source that is not
\* in the cache: translating it would have spawned the compiler.
C4_Witness ==
    /\ Raises
    /\ \E k \in remaining :
           /\ DOMAIN indoc[k] = TestCaseKeys
           /\ DOMAIN indoc[k].transaction = TransactionKeys
           /\ indoc[k].transaction.data = Compile(ASe)
           /\ ASe \notin DOMAIN bytecodes

----------------------------------------------------------------------------
(* C6 *)

\* C6, as amended: the error of a failed format check carries the name of the
\* parser, Address, SecretKey or UInt, not of the field, with the raw value and
\* the pattern: it is the error of a field of the transaction that has this
\* parser and this value, and the value does not match the pattern.
C6_NamesTheParser ==
    RaisesSchema("Invalid field") =>
        /\ DOMAIN outcome.err = {"kind", "what", "name", "src", "pat"}
        /\ outcome.err.name \in DOMAIN PatternOf
        /\ outcome.err.pat = PatternOf[outcome.err.name]
        /\ \E k \in DOMAIN TypeOf :
               /\ TypeOf[k] = outcome.err.name
               /\ CurTransaction[k] = outcome.err.src
        /\ outcome.err.name = "Address" => ~IsLowerHex(outcome.err.src, 40)
        /\ outcome.err.name = "SecretKey" => ~IsLowerHex(outcome.err.src, 64)
        /\ outcome.err.name = "UInt" => ~IsDecimal(outcome.err.src)

\* gasLimit and nonce hold the same bad value: the error says UInt and that
\* value, which fits either field.
C6_Witness ==
    /\ RaisesSchema("Invalid field")
    /\ outcome.err.name = "UInt"
    /\ CurTransaction.gasLimit = outcome.err.src
    /\ CurTransaction.nonce = outcome.err.src

\* C6, as claimed: the error of a failed format check names the field, one of
\* the keys of the transaction, whose value it reports.
C6_NamesTheField ==
    RaisesSchema("Invalid field") =>
        /\ outcome.err.name \in TransactionKeys
        /\ CurTransaction[outcome.err.name] = outcome.err.src

----------------------------------------------------------------------------
(* C7 *)

IsDataShorthand(d) == d = <<>> \/ IsHexRef(d) \/ IsCompileRef(d)
ValidTransaction(tx) ==
    /\ DOMAIN tx = TransactionKeys
    /\ IsDataShorthand(tx.data)
    /\ \A k \in UIntKeys : IsDecimal(tx[k])
    /\ IsLowerHex(tx.to, 40)
    /\ IsLowerHex(tx.secretKey, 64)
ValidSuite(doc) ==
    \A n \in DOMAIN doc :
        /\ DOMAIN doc[n] = TestCaseKeys
        /\ ValidTransaction(doc[n].transaction)
ExpectedData(d) ==
    IF d = <<>> THEN <<>>
    ELSE IF IsHexRef(d) THEN <<"0", "x">> \o SubSeq(d, 5, Len(d))
    ELSE bytecodes[PathOf(d)]
IsTranslationOf(out, doc) ==
    /\ DOMAIN out = DOMAIN doc
    /\ \A n \in DOMAIN doc :
           /\ DOMAIN out[n] = TestCaseKeys
           /\ \A k \in OpaqueKeys : out[n][k] = doc[n][k]
           /\ DOMAIN out[n].transaction = TransactionKeys
           /\ \A k \in TransactionKeys \ {"data"} :
                  out[n].transaction[k] = doc[n].transaction[k]
           /\ out[n].transaction.data = ExpectedData(doc[n].transaction.data)
CallEnded == pc = "idle" /\ outcome.kind # "none"
AsciiNames(doc) == \A n \in DOMAIN doc : \A i \in 1..Len(n) : n[i] # "U+00E9"
KnownExtensions(doc) ==
    \A n \in DOMAIN doc :
        IsCompileRef(doc[n].transaction.data)
            => Splitext(PathOf(doc[n].transaction.data))[2] = DotSe

----------------------------------------------------------------------------
(* C9 *)

CallStarts == pc = "dict" /\ remaining = DOMAIN indoc

\* C9, as amended: cache entries are never shared across translators.  A
\* translator that has not been called has an empty cache, the cache is empty
\* when its first call starts, and at all times the cache holds exactly what
\* this translator's own successful compiles produced: what an earlier
\* translator compiled is compiled again, and what an earlier call on this
\* translator compiled is still there.
C9_CacheOfOneTranslator ==
    /\ tcalls = 0 => bytecodes = <<>>
    /\ (CallStarts /\ tcalls = 1) => bytecodes = <<>>
    /\ CacheIsOfOwnCompiles
    /\ \A i \in DOMAIN compiles : compiles[i].call \in 1..tcalls

\* The second translator has compiled a path that the first had compiled.
C9_Witness ==
    /\ ntrans = 2
    /\ ASe \in earlier
    /\ ASe \in DOMAIN bytecodes
    /\ \E i \in DOMAIN compiles : compiles[i].path = ASe /\ compiles[i].ok

\* C9, as claimed: the cache is empty at the start of each call.
C9_EmptyAtEachCall == CallStarts => bytecodes = <<>>

----------------------------------------------------------------------------
(* C10 *)

\* C10: when the call has raised a key-set error, no compiler subprocess was
\* spawned for the entry of that record, and every cache entry comes from a
\* compile for another entry or of an earlier call.
C10_KeyCheckBeforeParsing ==
    RaisesSchema("Missing keys") =>
        /\ SpawnedFor(cur) = {}
        /\ \A p \in DOMAIN bytecodes :
               \E i \in DOMAIN compiles :
                   /\ compiles[i].path = p /\ compiles[i].ok
                   /\ compiles[i].call < tcalls \/ compiles[i].entry # cur

\* A Transaction with a wrong key set whose data is a compile: reference to a
\* source that is not in the cache.
C10_Witness ==
    /\ RaisesSchema("Missing keys")
    /\ DOMAIN CurCase = TestCaseKeys
    /\ "data" \in DOMAIN CurTransaction
    /\ CurTransaction.data = Compile(ASe)
    /\ ASe \notin DOMAIN bytecodes

====
